---- MODULE Spec2Model ----
(***************************************************************************)
(* Model of the metrics reconciliation pipeline of src/main.py: the        *)
(* identity extractor (extract_video_id), the recent-posts collector       *)
(* (get_all_recent_urls), the job dispatcher (call_apify_actor), the sync   *)
(* trigger (start_sync), the result reconciler (apify_webhook_handler) and *)
(* the operational log ring (add_log, get_logs).                            *)
(*                                                                         *)
(* Python strings are sequences of one-character strings, so that the      *)
(* substring tests and the regular expressions of the source are computed  *)
(* on the characters.  Python None is the value None below.                *)
(***************************************************************************)
EXTENDS Integers, Sequences, FiniteSets, TLC

\* ------------------------------------------------------------------------
\* Text
\* ------------------------------------------------------------------------

\* Python None, kept apart from every string (a string holds only
\* one-character elements) and from the empty string <<>>.
None == <<"None">>

\* Python truthiness of an optional string: None and "" are falsy.
Truthy(s) == s # None /\ s # <<>>

DigitChars == {"0", "1", "2", "3", "4", "5", "6", "7", "8", "9"}

LowerSeq == <<"a", "b", "c", "d", "e", "f", "g", "h", "i", "j", "k", "l", "m",
              "n", "o", "p", "q", "r", "s", "t", "u", "v", "w", "x", "y", "z">>

UpperSeq == <<"A", "B", "C", "D", "E", "F", "G", "H", "I", "J", "K", "L", "M",
              "N", "O", "P", "Q", "R", "S", "T", "U", "V", "W", "X", "Y", "Z">>

Range(f) == {f[i] : i \in DOMAIN f}

\* The character class [0-9A-Za-z_-] of the YouTube and Instagram patterns.
IdChars == DigitChars \cup Range(LowerSeq) \cup Range(UpperSeq) \cup {"_", "-"}

\* str.lower() on one character and on a string.
LowerMap == [c \in Range(UpperSeq) |->
                LowerSeq[CHOOSE i \in DOMAIN UpperSeq : UpperSeq[i] = c]]

LowerChar(c) == IF c \in DOMAIN LowerMap THEN LowerMap[c] ELSE c

Lower(s) == [i \in DOMAIN s |-> LowerChar(s[i])]

\* The pattern p occurs in s starting at position i.
StartsAt(s, i, p) ==
    /\ i >= 1
    /\ i + Len(p) - 1 <= Len(s)
    /\ \A k \in 1..Len(p) : s[i + k - 1] = p[k]

\* Python `p in s`.
Contains(s, p) == \E i \in 1..(Len(s) + 1) : StartsAt(s, i, p)

\* Last position of the longest run of characters of class C that starts at
\* position i (i - 1 when s[i] is not in C): a greedy C* at i.
RunEnd(s, i, C) ==
    CHOOSE j \in (i - 1)..Len(s) :
        /\ \A k \in i..j : s[k] \in C
        /\ (j = Len(s) \/ s[j + 1] \notin C)

SetMin(S) == CHOOSE x \in S : \A y \in S : x <= y

\* Markers and pattern literals.
S_youtu     == <<"y", "o", "u", "t", "u">>
S_youtube   == <<"y", "o", "u", "t", "u", "b", "e">>
S_youtu_be  == <<"y", "o", "u", "t", "u", ".", "b", "e">>
S_instagram == <<"i", "n", "s", "t", "a", "g", "r", "a", "m">>
S_tiktok    == <<"t", "i", "k", "t", "o", "k">>
S_vk_com    == <<"v", "k", ".", "c", "o", "m">>
S_v_eq      == <<"v", "=">>
S_slash     == <<"/">>
S_be_slash  == <<"b", "e", "/">>
S_p         == <<"/", "p", "/">>
S_reel      == <<"/", "r", "e", "e", "l", "/">>
S_tv        == <<"/", "t", "v", "/">>
S_video_sl  == <<"v", "i", "d", "e", "o", "/">>
S_clip      == <<"c", "l", "i", "p">>
S_video     == <<"v", "i", "d", "e", "o">>

\* Length of a YouTube video id: the {11} of the pattern.
YtIdLen == 11

\* A failed re.search.
NoMatch == [matched |-> FALSE, group |-> <<>>]

\* re.search finds the leftmost match: the least of the positions starts
\* where the pattern matches, 0 when there is none.
Leftmost(starts) == IF starts = {} THEN 0 ELSE SetMin(starts)

\* re.search(r"(?:v=|\/|be\/)([0-9A-Za-z_-]{11})", url): the prefix p at
\* position i followed by eleven id characters; group 1 is these characters.
yt_alts == <<S_v_eq, S_slash, S_be_slash>>

yt_at(url, i, p) ==
    /\ StartsAt(url, i, p)
    /\ i + Len(p) + YtIdLen - 1 <= Len(url)
    /\ \A k \in 0..(YtIdLen - 1) : url[i + Len(p) + k] \in IdChars

yt_group(url, b) == [matched |-> TRUE, group |-> SubSeq(url, b, b + YtIdLen - 1)]

\* The positions where an alternative matches, and the first alternative
\* that matches at position i.
yt_starts(url) ==
    {i \in 1..Len(url) : \E a \in DOMAIN yt_alts : yt_at(url, i, yt_alts[a])}

yt_alt(url, i) ==
    yt_alts[SetMin({a \in DOMAIN yt_alts : yt_at(url, i, yt_alts[a])})]

yt_from(url, i) ==
    IF i = 0 THEN NoMatch
    ELSE yt_group(url, i + Len(yt_alt(url, i)))

yt_match(url) == yt_from(url, Leftmost(yt_starts(url)))

\* re.search(r"/(?:p|reel|tv)/([A-Za-z0-9_-]+)", url): group 1 is the
\* longest run of id characters after the marker.
ig_alts == <<S_p, S_reel, S_tv>>

ig_at(url, i, p) ==
    /\ StartsAt(url, i, p)
    /\ i + Len(p) <= Len(url)
    /\ url[i + Len(p)] \in IdChars

\* The group taken up to the end of the URL.
ig_group_to_end(url, b) == [matched |-> TRUE, group |-> SubSeq(url, b, Len(url))]

ig_group(url, b) == [matched |-> TRUE, group |-> SubSeq(url, b, RunEnd(url, b, IdChars))]

\* The positions where an alternative matches, and the first alternative
\* that matches at position i.
ig_starts(url) ==
    {i \in 1..Len(url) : \E a \in DOMAIN ig_alts : ig_at(url, i, ig_alts[a])}

ig_alt(url, i) ==
    ig_alts[SetMin({a \in DOMAIN ig_alts : ig_at(url, i, ig_alts[a])})]

ig_from(url, i) ==
    IF i = 0 THEN NoMatch
    ELSE ig_group(url, i + Len(ig_alt(url, i)))

ig_match(url) == ig_from(url, Leftmost(ig_starts(url)))

\* re.search(r"video/(\d+)", url).
tt_at(url, i, p) ==
    /\ StartsAt(url, i, p)
    /\ i + Len(p) <= Len(url)
    /\ url[i + Len(p)] \in DigitChars

tt_group(url, b) == [matched |-> TRUE, group |-> SubSeq(url, b, RunEnd(url, b, DigitChars))]

tt_starts(url) == {i \in 1..Len(url) : tt_at(url, i, S_video_sl)}

tt_from(url, i) ==
    IF i = 0 THEN NoMatch ELSE tt_group(url, i + Len(S_video_sl))

tt_match(url) == tt_from(url, Leftmost(tt_starts(url)))

\* End of a match of \d+_\d+ whose first digit run begins at position d1 and
\* ends at e1, 0 when there is none.
VkTailEnd(url, d1, e1, e2) ==
    IF /\ e1 >= d1
       /\ e1 + 1 <= Len(url) /\ url[e1 + 1] = "_"
       /\ e2 >= e1 + 2
    THEN e2 ELSE 0

VkDigitsEnd(url, d1, e1) ==
    VkTailEnd(url, d1, e1, RunEnd(url, e1 + 2, DigitChars))

\* End of a match of -?\d+_\d+ that begins at position b, 0 when there is
\* none.  \d+ is greedy and a digit run can only be followed by "_" at its
\* end, so backtracking finds no other match.
VkPairEnd(url, b) ==
    IF b <= Len(url) /\ url[b] = "-"
    THEN VkDigitsEnd(url, b + 1, RunEnd(url, b + 1, DigitChars))
    ELSE VkDigitsEnd(url, b, RunEnd(url, b, DigitChars))

\* re.search(r"(clip|video)(-?\d+_\d+)", url); group is group 2.
vk_alts == <<S_clip, S_video>>

vk_at(url, i, p) == StartsAt(url, i, p) /\ VkPairEnd(url, i + Len(p)) > 0

vk_group(url, b) == [matched |-> TRUE, group |-> SubSeq(url, b, VkPairEnd(url, b))]

\* The positions where an alternative matches, and the first alternative
\* that matches at position i.
vk_starts(url) ==
    {i \in 1..Len(url) : \E a \in DOMAIN vk_alts : vk_at(url, i, vk_alts[a])}

vk_alt(url, i) ==
    vk_alts[SetMin({a \in DOMAIN vk_alts : vk_at(url, i, vk_alts[a])})]

vk_from(url, i) ==
    IF i = 0 THEN NoMatch
    ELSE vk_group(url, i + Len(vk_alt(url, i)))

vk_match(url) == vk_from(url, Leftmost(vk_starts(url)))

\* The if/elif chain of extract_video_id on the outcomes of the four
\* searches.
video_id_from(url, yt, ig, tt, vk) ==
    IF Contains(url, S_youtu) /\ yt.matched THEN yt.group
    ELSE IF Contains(url, S_instagram) /\ ig.matched THEN ig.group
    ELSE IF Contains(url, S_tiktok) /\ tt.matched THEN tt.group
    ELSE IF Contains(url, S_vk_com) /\ vk.matched THEN vk.group
    ELSE url

\* extract_video_id(url): the join key of a post URL, computed from the
\* characters of url.
video_id_of(url) ==
    IF ~Truthy(url) THEN None
    ELSE video_id_from(url, yt_match(url), ig_match(url), tt_match(url),
                       vk_match(url))

\* ------------------------------------------------------------------------
\* Post URLs used by the model
\* ------------------------------------------------------------------------

\* "youtu.be/dQw4w9WgXcQ"
U_yt == <<"y", "o", "u", "t", "u", ".", "b", "e", "/", "d", "Q", "w", "4", "w", "9", "W", "g", "X", "c", "Q">>
\* "instagram.com/p/AB1/"
U_ig == <<"i", "n", "s", "t", "a", "g", "r", "a", "m", ".", "c", "o", "m", "/", "p", "/", "A", "B", "1", "/">>
\* "instagram.com/reel/AB1": another URL of the post AB1
U_igr == <<"i", "n", "s", "t", "a", "g", "r", "a", "m", ".", "c", "o", "m", "/", "r", "e", "e", "l", "/", "A", "B", "1">>
\* "Instagram.com/p/AB1": the marker in another case
U_IG == <<"I", "n", "s", "t", "a", "g", "r", "a", "m", ".", "c", "o", "m", "/", "p", "/", "A", "B", "1">>
\* "tiktok.com/@u/video/71"
U_tt == <<"t", "i", "k", "t", "o", "k", ".", "c", "o", "m", "/", "@", "u", "/", "v", "i", "d", "e", "o", "/", "7", "1">>
\* "vk.com/clip-1_2"
U_vk == <<"v", "k", ".", "c", "o", "m", "/", "c", "l", "i", "p", "-", "1", "_", "2">>
\* "example.com/x": no platform marker
U_x == <<"e", "x", "a", "m", "p", "l", "e", ".", "c", "o", "m", "/", "x">>
\* "example.org/y": no platform marker
U_y == <<"e", "x", "a", "m", "p", "l", "e", ".", "o", "r", "g", "/", "y">>
\* "instagram.com/p/x?s=tiktok": two platform markers
U_mix == <<"i", "n", "s", "t", "a", "g", "r", "a", "m", ".", "c", "o", "m", "/", "p", "/", "x", "?", "s", "=", "t", "i", "k", "t", "o", "k">>

\* URLs put together from a scheme, a host, a path and a suffix: every host
\* with every path, so that a platform's marker meets another platform's
\* path, and suffixes that carry a second marker.
S_https == <<"h", "t", "t", "p", "s", ":", "/", "/">>

\* "youtu.be", "youtube.com", "instagram.com", "tiktok.com", "vk.com",
\* "example.com", "Instagram.com"
HostsE ==
    {<<"y", "o", "u", "t", "u", ".", "b", "e">>,
     <<"y", "o", "u", "t", "u", "b", "e", ".", "c", "o", "m">>,
     <<"i", "n", "s", "t", "a", "g", "r", "a", "m", ".", "c", "o", "m">>,
     <<"t", "i", "k", "t", "o", "k", ".", "c", "o", "m">>,
     <<"v", "k", ".", "c", "o", "m">>,
     <<"e", "x", "a", "m", "p", "l", "e", ".", "c", "o", "m">>,
     <<"I", "n", "s", "t", "a", "g", "r", "a", "m", ".", "c", "o", "m">>}

\* "/dQw4w9WgXcQ", "/watch?v=dQw4w9WgXcQ", "/p/AB1/", "/reel/C_d-2",
\* "/@u/video/71", "/clip-1_2", "/video3_4", "/x"
PathsE ==
    {<<"/", "d", "Q", "w", "4", "w", "9", "W", "g", "X", "c", "Q">>,
     <<"/", "w", "a", "t", "c", "h", "?", "v", "=", "d", "Q", "w", "4", "w", "9", "W", "g", "X", "c", "Q">>,
     <<"/", "p", "/", "A", "B", "1", "/">>,
     <<"/", "r", "e", "e", "l", "/", "C", "_", "d", "-", "2">>,
     <<"/", "@", "u", "/", "v", "i", "d", "e", "o", "/", "7", "1">>,
     <<"/", "c", "l", "i", "p", "-", "1", "_", "2">>,
     <<"/", "v", "i", "d", "e", "o", "3", "_", "4">>,
     <<"/", "x">>}

\* "", "?s=tiktok", "#instagram", "&r=youtu"
SuffixesE ==
    {<<>>,
     <<"?", "s", "=", "t", "i", "k", "t", "o", "k">>,
     <<"#", "i", "n", "s", "t", "a", "g", "r", "a", "m">>,
     <<"&", "r", "=", "y", "o", "u", "t", "u">>}

UrlsE == {S_https \o h \o p \o s : h \in HostsE, p \in PathsE, s \in SuffixesE}

\* "youtu.be/12345678901" and "tiktok.com/@u/video/12345678901": a YouTube
\* video and a TikTok video with the same identifier
U_yt11 == <<"y", "o", "u", "t", "u", ".", "b", "e", "/", "1", "2", "3", "4", "5", "6", "7", "8", "9", "0", "1">>
U_tt11 == <<"t", "i", "k", "t", "o", "k", ".", "c", "o", "m", "/", "@", "u", "/", "v", "i", "d", "e", "o", "/", "1", "2", "3", "4", "5", "6", "7", "8", "9", "0", "1">>

\* Every URL the model passes to extract_video_id, with None and "".
Urls ==
    {U_yt, U_ig, U_igr, U_IG, U_tt, U_vk, U_x, U_y, U_mix, U_yt11, U_tt11,
     <<>>, None} \cup UrlsE

\* extract_video_id on the URLs of the model: video_id_of, computed once
\* per URL.
VideoIdTable == [url \in Urls |-> video_id_of(url)]

extract_video_id(url) == VideoIdTable[url]

\* ------------------------------------------------------------------------
\* Configuration and bounds
\* ------------------------------------------------------------------------

\* ACTORS: the platforms with a configured actor, in the order of the
\* buckets of get_all_recent_urls.
ACTORS == <<"instagram", "tiktok", "youtube", "vk">>

\* Caller ids as validate_telegram_data returns them: user_data.get('id') is
\* an integer, or NoId when the init data carries no user.
NoId == 0
MaxUser == 2
CallerIds == 0..MaxUser

\* str() of a caller id and of ADMIN_ID (the environment gives a string).
StrOfId == [i \in CallerIds |-> IF i = NoId THEN "None"
                                ELSE <<"1", "2", "3", "4">>[i]]

\* ADMIN_TELEGRAM_ID of the environment.
ADMIN_ID == "1"

\* The users table: telegram_id -> team, for the registered users.
UserTeam == [i \in {1, 2} |-> IF i = 1 THEN "red" ELSE "blue"]

\* Capacity of the log ring.
LogCapacity == 30

\* timedelta(days=7)
WindowDays == 7

\* Bounds of the model.
MaxRows == 2
MaxTime == 1
MaxAppends == 4
MaxItems == 2
MaxPosts == 5

\* ------------------------------------------------------------------------
\* State
\* ------------------------------------------------------------------------

VARIABLES
    rows,         \* the analytics table, in storage order: a sequence of
                  \* [id, post_url, likes, views, added_at, user_id, team]
    system_logs,  \* the log ring (module-level list system_logs)
    now,          \* the clock, in days
    datasets,     \* the result sets the external service holds: dataset id ->
                  \* sequence of result items
    last          \* the last call of a handler or function: its arguments,
                  \* its outcome and the external calls it made

vars == <<rows, system_logs, now, datasets, last>>

\* ------------------------------------------------------------------------
\* Operational log ring
\* ------------------------------------------------------------------------

\* `from datetime import datetime` binds the name datetime to the class, and
\* add_log evaluates datetime.datetime.now(): the attribute lookup
\* datetime.datetime on the class.  The class has no attribute `datetime`.
DatetimeClassHasAttrDatetime == FALSE

\* A log message: the text of the f-string, with the values it formats.
Msg(text, platform, n) == [text |-> text, platform |-> platform, n |-> n]

\* add_log(message) on the ring logs: raised tells whether the call raised
\* (AttributeError at the first statement, before anything is appended).
add_log(logs, message) ==
    IF ~DatetimeClassHasAttrDatetime
    THEN [raised |-> TRUE, logs |-> logs]
    ELSE LET log_entry == [stamp |-> now, message |-> message]
             appended == Append(logs, log_entry)
         IN  [raised |-> FALSE,
              logs |-> IF Len(appended) > LogCapacity THEN Tail(appended)
                       ELSE appended]

\* get_logs(): the ring as it is.
get_logs(logs) == [logs |-> logs]

\* ------------------------------------------------------------------------
\* Recent-posts collector
\* ------------------------------------------------------------------------

\* The if/elif chain with the TikTok test before the Instagram test.
platform_of_tiktok_first(low_url) ==
    IF Contains(low_url, S_tiktok) THEN "tiktok"
    ELSE IF Contains(low_url, S_instagram) THEN "instagram"
    ELSE IF Contains(low_url, S_youtube) \/ Contains(low_url, S_youtu_be)
         THEN "youtube"
    ELSE IF Contains(low_url, S_vk_com) THEN "vk"
    ELSE ""

\* The if/elif chain of get_all_recent_urls on low_url = url.lower(): the
\* bucket the URL is added to, "" when no branch is taken.
platform_of(low_url) ==
    IF Contains(low_url, S_instagram) THEN "instagram"
    ELSE IF Contains(low_url, S_tiktok) THEN "tiktok"
    ELSE IF Contains(low_url, S_youtube) \/ Contains(low_url, S_youtu_be)
         THEN "youtube"
    ELSE IF Contains(low_url, S_vk_com) THEN "vk"
    ELSE ""

\* The bucket of url.
bucket_of(url) == platform_of(Lower(url))

\* bucket_of on the URLs of the model, computed once per URL.
BucketTable == [url \in Urls \ {None} |-> bucket_of(url)]

Bucket(url) == BucketTable[url]

\* The buckets that are not empty (`if v` of the returned comprehension).
non_empty(grouped) ==
    [k \in {p \in DOMAIN grouped : grouped[p] # {}} |-> grouped[k]]

\* The query with a strict comparison (gt for gte).
recent_strict(tbl, t) == SelectSeq(tbl, LAMBDA r : r.added_at > t - WindowDays)

\* The records of the query: those added within the window before t.
recent(tbl, t) == SelectSeq(tbl, LAMBDA r : r.added_at >= t - WindowDays)

\* The buckets of the records data, one per platform of ACTORS.
grouped_of(data) ==
    [k \in Range(ACTORS) |->
        {data[i].post_url : i \in {j \in DOMAIN data : Bucket(data[j].post_url) = k}}]

\* get_all_recent_urls() on the table tbl at time t: the mapping from each
\* platform with at least one URL to its set of URLs (the source returns
\* list(set): the set in an unspecified order).
get_all_recent_urls(tbl, t) == non_empty(grouped_of(recent(tbl, t)))

\* The lists list(v) can be: the enumerations of the set v.
ListsOf(v) ==
    {l \in [1..Cardinality(v) -> v] : \A i, j \in DOMAIN l : l[i] = l[j] => i = j}

\* ------------------------------------------------------------------------
\* Job dispatcher
\* ------------------------------------------------------------------------

\* Answers of the external service to a submission: an HTTP response with a
\* status and a JSON body (the run id top-level, under data, a data object
\* without id, or neither key), or a network failure.
RunAnswer(status, shape) == [kind |-> "response", status |-> status, shape |-> shape]
NetworkFailure == [kind |-> "exception"]

RunAnswers ==
    {RunAnswer(201, "data_id"), RunAnswer(200, "top_id"), RunAnswer(500, "none"),
     NetworkFailure}

\* The run id the external service gives the run of a platform.
RunIdOf(platform) == <<"run", platform>>

\* response.json() of an answer for a platform: a dict as the set of its
\* keys and the values of id and data.id (None when absent).
BodyOf(platform, answer) ==
    [none |-> FALSE,
     keys |-> IF answer.shape = "top_id" THEN {"id"}
              ELSE IF answer.shape \in {"data_id", "data_no_id"} THEN {"data"}
              ELSE {"status"},
     id |-> IF answer.shape = "top_id" THEN RunIdOf(platform) ELSE <<"None">>,
     data_id |-> IF answer.shape = "data_id" THEN RunIdOf(platform) ELSE <<"None">>,
     error |-> 0]

\* The VK actor input for the identifiers vk_ids.
vk_input(vk_ids) ==
    [query |-> vk_ids, search_mode |-> "video", limit |-> Len(vk_ids),
     hd |-> FALSE, is_online |-> FALSE, with_photo |-> FALSE,
     dev_dataset_clear |-> FALSE, dev_no_strip |-> FALSE]

\* The actor input with the VK limit taken from the urls, not from the
\* identifiers.
actor_input_limit_of_urls(platform, urls) ==
    IF platform = "tiktok"
    THEN [postURLs |-> urls, resultsPerPage |-> Len(urls),
          shouldDownloadVideos |-> FALSE, shouldDownloadCovers |-> FALSE]
    ELSE IF platform = "instagram"
    THEN [resultsLimit |-> Len(urls), skipPinnedPosts |-> FALSE, username |-> urls]
    ELSE IF platform = "vk"
    THEN [vk_input(SelectSeq([i \in DOMAIN urls |-> extract_video_id(urls[i])], Truthy))
             EXCEPT !.limit = Len(urls)]
    ELSE [startUrls |-> [i \in DOMAIN urls |-> [url |-> urls[i]]],
          maxResults |-> Len(urls)]

\* The actor input call_apify_actor builds for a platform and a list of urls.
actor_input(platform, urls) ==
    IF platform = "tiktok"
    THEN [postURLs |-> urls, resultsPerPage |-> Len(urls),
          shouldDownloadVideos |-> FALSE, shouldDownloadCovers |-> FALSE]
    ELSE IF platform = "instagram"
    THEN [resultsLimit |-> Len(urls), skipPinnedPosts |-> FALSE, username |-> urls]
    ELSE IF platform = "vk"
    THEN vk_input(SelectSeq([i \in DOMAIN urls |-> extract_video_id(urls[i])], Truthy))
    ELSE [startUrls |-> [i \in DOMAIN urls |-> [url |-> urls[i]]],
          maxResults |-> Len(urls)]

\* The dict call_apify_actor returns from its except branches.
ErrorData(code) ==
    [none |-> FALSE, keys |-> {"error"}, id |-> <<"None">>, data_id |-> <<"None">>,
     error |-> code]

\* call_apify_actor(platform, urls, team_name) when the external service
\* gives answer: the value returned (run_data) and the submissions made.
call_apify_actor(platform, urls, team_name, answer) ==
    IF platform \notin Range(ACTORS)
    THEN [run_data |-> [none |-> TRUE, keys |-> {}, id |-> <<"None">>,
                        data_id |-> <<"None">>, error |-> 0],
          posts |-> <<>>]
    ELSE [run_data |-> IF answer.kind = "exception" THEN ErrorData(-1)
                       ELSE IF answer.status \notin {200, 201}
                       THEN ErrorData(answer.status)
                       ELSE BodyOf(platform, answer),
          posts |-> <<[call |-> "post_run", platform |-> platform,
                       input |-> actor_input(platform, urls),
                       webhook |-> [platform |-> platform, team |-> team_name]]>>]

\* ------------------------------------------------------------------------
\* Sync trigger
\* ------------------------------------------------------------------------

\* Lines 467-472 of start_sync: the entry of launch_details for run_data.
detail_of(run_data) ==
    IF /\ ~run_data.none
       /\ run_data.keys # {}
       /\ ("id" \in run_data.keys \/ "data" \in run_data.keys)
    THEN [status |-> "Started",
          run_id |-> IF "id" \in run_data.keys /\ Truthy(run_data.id)
                     THEN run_data.id ELSE run_data.data_id]
    ELSE [status |-> "Failed to start", run_id |-> <<"None">>]

\* The entry of launch_details and the submissions of the call r of
\* call_apify_actor.
launch_of(r) == [posts |-> r.posts, detail |-> detail_of(r.run_data)]

\* Lines 465-472 of start_sync for one platform: the submission and the
\* entry of launch_details it yields.
launch(platform, urls, answer) ==
    launch_of(call_apify_actor(platform, urls, "global", answer))

\* acc after the platform whose add_log call l with message m returned and
\* whose launch is la.
launched_one(acc, platform, m, l, la) ==
    [raised |-> FALSE,
     logs |-> l.logs,
     log_msgs |-> Append(acc.log_msgs, m),
     launched |-> [p \in DOMAIN acc.launched \cup {platform} |->
                      IF p = platform THEN la.detail ELSE acc.launched[p]],
     effects |-> acc.effects \o la.posts]

\* The loop of start_sync over data_to_sync.items(), from the k-th platform
\* of ps on; acc carries the ring, the add_log calls, launch_details and the
\* submissions made so far.  A raising add_log ends the handler.
RECURSIVE sync_loop(_, _, _, _, _)
sync_loop(ps, k, order, answers, acc) ==
    IF k > Len(ps) THEN acc
    ELSE LET platform == ps[k]
             urls == order[platform]
             m == Msg("actor_start", platform, Len(urls))
             l == add_log(acc.logs, m)
         IN  IF l.raised
             THEN [acc EXCEPT !.raised = TRUE, !.log_msgs = Append(@, m)]
             ELSE sync_loop(ps, k + 1, order, answers,
                            launched_one(acc, platform, m, l,
                                         launch(platform, urls, answers[platform])))

\* The response of a handler that raised, and of one rejected with 403.
Raised == [status |-> "raised"]
Forbidden == [status |-> "http403"]

\* Lines 474-480 of start_sync: the last add_log and the response, acc being
\* the outcome of the loop.
sync_end(data_to_sync, acc, m3, l3) ==
    IF acc.raised
    THEN [response |-> Raised, logs |-> acc.logs,
          log_msgs |-> acc.log_msgs, effects |-> acc.effects]
    ELSE [response |->
              IF l3.raised THEN Raised
              ELSE [status |-> "processing", scope |-> "all_teams",
                    launched |-> acc.launched,
                    counts |-> [p \in DOMAIN data_to_sync |->
                                   Cardinality(data_to_sync[p])]],
          logs |-> l3.logs, log_msgs |-> Append(acc.log_msgs, m3),
          effects |-> acc.effects]

\* Lines 462-480 of start_sync: the loop and what follows it.
sync_launch(data_to_sync, acc) ==
    sync_end(data_to_sync, acc, Msg("all_sent", "", 0),
             add_log(acc.logs, Msg("all_sent", "", 0)))

\* Lines 455-480 of start_sync, data_to_sync being the outcome of the
\* collector, l1 and m1 the first add_log call.
sync_data(data_to_sync, l1, m1, answers, order) ==
    LET query == [call |-> "select_recent"]
    IN  IF DOMAIN data_to_sync = {}
        THEN LET m2 == Msg("no_urls", "", 0)
                 l2 == add_log(l1.logs, m2)
             IN  [response |-> IF l2.raised THEN Raised ELSE [status |-> "empty"],
                  logs |-> l2.logs, log_msgs |-> <<m1, m2>>,
                  effects |-> <<query>>]
        ELSE sync_launch(data_to_sync,
                         sync_loop(SelectSeq(ACTORS, LAMBDA p : p \in DOMAIN data_to_sync),
                                   1, order, answers,
                                   [raised |-> FALSE, logs |-> l1.logs,
                                    log_msgs |-> <<m1>>,
                                    launched |-> [p \in {} |-> 0],
                                    effects |-> <<query>>]))

\* Lines 450-480 of start_sync, after the check of the caller, on the table
\* tbl and the ring logs at time t.  answers[p] is the external service's
\* answer to the submission for platform p, order[p] the list the bucket of
\* p is turned into.  Yields the response, the ring, the add_log calls and
\* the external calls made (storage queries, submissions).
sync_all(tbl, logs, t, answers, order) ==
    LET m1 == Msg("sync_start", "", 0)
        l1 == add_log(logs, m1)
    IN  IF l1.raised
        THEN [response |-> Raised, logs |-> l1.logs, log_msgs |-> <<m1>>,
              effects |-> <<>>]
        ELSE sync_data(get_all_recent_urls(tbl, t), l1, m1, answers, order)

\* start_sync without the check of the caller.
start_sync_unchecked(tbl, logs, t, user_id, answers, order) ==
    sync_all(tbl, logs, t, answers, order)

\* start_sync(user_data) for the caller id user_id: only the operator gets
\* past line 444.
start_sync(tbl, logs, t, user_id, answers, order) ==
    IF StrOfId[user_id] # ADMIN_ID
    THEN [response |-> Forbidden, logs |-> logs, log_msgs |-> <<>>, effects |-> <<>>]
    ELSE sync_all(tbl, logs, t, answers, order)

\* ------------------------------------------------------------------------
\* Result reconciler
\* ------------------------------------------------------------------------

\* JSON values of the counter fields of a result item: null (or the field
\* absent: item.get gives None for both), a number, or an object with or
\* without a count.
JNull == [t |-> "null"]
JInt(n) == [t |-> "int", v |-> n]
JCount(n) == [t |-> "dict", has_count |-> TRUE, count |-> n]
JNoCount == [t |-> "dict", has_count |-> FALSE]

\* a or b on optional strings.
Or(a, b) == IF Truthy(a) THEN a ELSE b

\* x if x is not None else y, on counters.
IfNone(x, y) == IF x = JNull THEN y ELSE x

\* raw_url of an item (line 509).
raw_url(item) ==
    Or(item.url, Or(item.direct_url, Or(item.webVideoUrl,
       Or(item.inputUrl, item.player))))

\* likes with diggCount probed before likesCount.
likes_of_digg_first(item) ==
    IF item.likes.t = "dict"
    THEN IF item.likes.has_count THEN item.likes.count ELSE 0
    ELSE IfNone(IfNone(IfNone(item.likes, item.diggCount),
                       item.likesCount), JInt(0)).v

\* likes of an item (lines 516-523).
likes_of(item) ==
    IF item.likes.t = "dict"
    THEN IF item.likes.has_count THEN item.likes.count ELSE 0
    ELSE IfNone(IfNone(IfNone(item.likes, item.likesCount),
                       item.diggCount), JInt(0)).v

\* views of an item (lines 526-530).
views_of(item) ==
    IfNone(IfNone(IfNone(IfNone(item.views, item.videoPlayCount),
                         item.viewCount), item.playCount), JInt(0)).v

SetMax(S) == CHOOSE x \in S : \A y \in S : y <= x

\* A dict in which the first pair with a key is kept.
DictOf_first_kept(pairs) ==
    [k \in {pairs[i][1] : i \in DOMAIN pairs} |->
        pairs[SetMin({i \in DOMAIN pairs : pairs[i][1] = k})][2]]

\* The dict a comprehension builds from the (key, value) pairs in order: a
\* later pair replaces an earlier one with the same key.
DictOf(pairs) ==
    [k \in {pairs[i][1] : i \in DOMAIN pairs} |->
        pairs[SetMax({i \in DOMAIN pairs : pairs[i][1] = k})][2]]

\* The (key, id) pairs of the records recs.
key_pairs(recs) ==
    [i \in DOMAIN recs |-> <<extract_video_id(recs[i].post_url), recs[i].id>>]

\* video_to_row_map (lines 494-497): the dict built from the records of tbl
\* that have a post_url.
video_to_row_map(tbl) ==
    DictOf(key_pairs(SelectSeq(tbl, LAMBDA r : Truthy(r.post_url))))

\* dict.get(key) on the join map; NoRow is None.
NoRow == 0
MapGet(map, vid_id) == IF vid_id \in DOMAIN map THEN map[vid_id] ELSE NoRow

\* An update that adds the counters to the stored ones.
update_row_adding(tbl, row_id, likes, views) ==
    [i \in DOMAIN tbl |->
        IF tbl[i].id = row_id
        THEN [tbl[i] EXCEPT !.likes = @ + likes, !.views = @ + views]
        ELSE tbl[i]]

\* An update without the filter on the row id.
update_row_unfiltered(tbl, row_id, likes, views) ==
    [i \in DOMAIN tbl |-> [tbl[i] EXCEPT !.likes = likes, !.views = views]]

\* An update of the likes alone.
update_row_likes_only(tbl, row_id, likes, views) ==
    [i \in DOMAIN tbl |->
        IF tbl[i].id = row_id THEN [tbl[i] EXCEPT !.likes = likes] ELSE tbl[i]]

\* supabase.table('analytics').update({likes, views}).eq('id', row_id)
update_row(tbl, row_id, likes, views) ==
    [i \in DOMAIN tbl |->
        IF tbl[i].id = row_id
        THEN [tbl[i] EXCEPT !.likes = likes, !.views = views]
        ELSE tbl[i]]

\* Lines 513-536 for one item whose identifier the join map gives row_id:
\* the update of that row, when there is one.
reconcile_item(acc, item, row_id) ==
    IF row_id # NoRow
    THEN [acc EXCEPT
             !.rows = update_row(@, row_id, likes_of(item), views_of(item)),
             !.effects = Append(@, [call |-> "update", row |-> row_id,
                                    likes |-> likes_of(item),
                                    views |-> views_of(item)])]
    ELSE acc

\* The loop over the items of the result set (lines 507-540), from the k-th
\* item on; map is the join map, acc the outcome so far.
RECURSIVE reconcile_loop(_, _, _, _)
reconcile_loop(map, data, k, acc) ==
    IF k > Len(data) THEN acc
    ELSE reconcile_loop(map, data, k + 1,
             reconcile_item(acc, data[k],
                            MapGet(map, extract_video_id(raw_url(data[k])))))

\* Answers of the external service to the retrieval of a result set.
ItemsAnswer(status, items) == [kind |-> "response", status |-> status, items |-> items]

\* The storage query and the retrieval the handler makes first.
fetch_calls(dataset_id) ==
    <<[call |-> "select_all"], [call |-> "get_items", dataset |-> dataset_id]>>

\* Lines 491-540 of apify_webhook_handler: the reconciliation of the result
\* set of dataset_id against the table tbl, given the external service's
\* answer to the retrieval.  returned is the status the handler returns
\* there, "" when it goes on to line 542.
reconcile(tbl, dataset_id, answer) ==
    IF answer.kind = "exception"
    THEN [raised |-> TRUE, returned |-> "", rows |-> tbl,
          effects |-> fetch_calls(dataset_id), n |-> 0]
    ELSE IF answer.status # 200
    THEN [raised |-> FALSE, returned |-> "error", rows |-> tbl,
          effects |-> fetch_calls(dataset_id), n |-> 0]
    ELSE reconcile_loop(video_to_row_map(tbl), answer.items, 1,
                        [raised |-> FALSE, returned |-> "", rows |-> tbl,
                         effects |-> fetch_calls(dataset_id),
                         n |-> Len(answer.items)])

\* Lines 491-543 of apify_webhook_handler, r being the outcome of lines
\* 491-540 and l1, m1 the first add_log call.
webhook_end(platform, l1, m1, r) ==
    LET m2 == Msg("updated", platform, r.n)
        l2 == add_log(l1.logs, m2)
    IN  IF r.raised
        THEN [response |-> Raised, rows |-> r.rows, logs |-> l1.logs,
              log_msgs |-> <<m1>>, effects |-> r.effects]
        ELSE IF r.returned # ""
        THEN [response |-> [status |-> r.returned], rows |-> r.rows,
              logs |-> l1.logs, log_msgs |-> <<m1>>, effects |-> r.effects]
        ELSE [response |-> IF l2.raised THEN Raised ELSE [status |-> "success"],
              rows |-> r.rows, logs |-> l2.logs, log_msgs |-> <<m1, m2>>,
              effects |-> r.effects]

\* apify_webhook_handler(payload) on the table tbl and the ring logs.
apify_webhook_handler(tbl, logs, payload, answer) ==
    LET dataset_id == payload.resource_id
        platform == payload.platform
        m1 == Msg("webhook_received", platform, 0)
        l1 == add_log(logs, m1)
    IN  IF l1.raised
        THEN [response |-> Raised, rows |-> tbl, logs |-> l1.logs,
              log_msgs |-> <<m1>>, effects |-> <<>>]
        ELSE webhook_end(platform, l1, m1, reconcile(tbl, dataset_id, answer))

\* ------------------------------------------------------------------------
\* Analytics ingestion
\* ------------------------------------------------------------------------

\* add_analytics_batch(batch_data, user_data) at time t: the records of the
\* batch are inserted with the caller's id and team; storage gives each an
\* id and added_at.
add_analytics_batch(tbl, t, user_id, batch) ==
    IF user_id \notin DOMAIN UserTeam
    THEN [response |-> Raised, rows |-> tbl]
    ELSE IF batch = <<>>
    THEN [response |-> [status |-> "http400"], rows |-> tbl]
    ELSE [response |-> [status |-> "success", inserted_count |-> Len(batch),
                        team |-> UserTeam[user_id]],
          rows |-> tbl \o [i \in DOMAIN batch |->
                             [id |-> Len(tbl) + i,
                              post_url |-> batch[i].post_url,
                              likes |-> batch[i].likes,
                              views |-> batch[i].views,
                              added_at |-> t,
                              user_id |-> user_id,
                              team |-> UserTeam[user_id]]]]

\* ------------------------------------------------------------------------
\* Inputs
\* ------------------------------------------------------------------------

\* Sequences over S of length at most n.
SeqsUpTo(S, n) == UNION {[1..k -> S] : k \in 0..n}

\* A result item with none of the probed fields.
EmptyItem ==
    [url |-> None, direct_url |-> None, webVideoUrl |-> None, inputUrl |-> None,
     player |-> None, likes |-> JNull, likesCount |-> JNull, diggCount |-> JNull,
     views |-> JNull, videoPlayCount |-> JNull, viewCount |-> JNull,
     playCount |-> JNull]

\* Result items of the scrapers' shapes.
ItemIg  == [EmptyItem EXCEPT !.url = U_ig, !.likes = JCount(42), !.views = JInt(10)]
ItemTt  == [EmptyItem EXCEPT !.webVideoUrl = U_tt, !.diggCount = JInt(7),
                             !.playCount = JInt(9)]
ItemVk  == [EmptyItem EXCEPT !.url = <<>>, !.direct_url = U_vk,
                             !.likesCount = JInt(3), !.viewCount = JInt(4)]
ItemIgr == [EmptyItem EXCEPT !.inputUrl = U_igr, !.likes = JInt(5),
                             !.videoPlayCount = JInt(1)]

\* The posts a user can submit.
PostUrls == {U_ig, U_tt}
PostData == [post_url : PostUrls, likes : {1}, views : {0}]

\* The notifications the external service can deliver.
DatasetIds == {"d1", "d2"}
Payloads == [resource_id : DatasetIds, platform : {"instagram", "tiktok"}]

\* The result sets of the whole-program specification.
SampleDatasets ==
    [d \in DatasetIds |-> IF d = "d1" THEN <<ItemIg, EmptyItem>> ELSE <<ItemTt>>]

\* The answers the external service can give to the retrieval of the result
\* set items: the items, a non-200 response, a network failure.
FetchAnswers(items) ==
    {ItemsAnswer(200, items), ItemsAnswer(500, <<>>), NetworkFailure}

\* ------------------------------------------------------------------------
\* The program
\* ------------------------------------------------------------------------

Init ==
    /\ rows = <<>>
    /\ system_logs = <<>>
    /\ now = 0
    /\ datasets = SampleDatasets
    /\ last = [op |-> "init"]

Tick ==
    /\ now < MaxTime
    /\ now' = now + 1
    /\ last' = [op |-> "tick"]
    /\ UNCHANGED <<rows, system_logs, datasets>>

AnalyticsAdd ==
    \E user_id \in CallerIds, batch \in SeqsUpTo(PostData, MaxRows - Len(rows)) :
        LET r == add_analytics_batch(rows, now, user_id, batch)
        IN  /\ rows' = r.rows
            /\ last' = [op |-> "analytics_add", caller |-> user_id,
                        response |-> r.response]
            /\ UNCHANGED <<system_logs, now, datasets>>

\* The lists the buckets of data can be turned into, one per platform.
Orders(data) ==
    {o \in [DOMAIN data -> UNION {ListsOf(data[p]) : p \in DOMAIN data}] :
        \A p \in DOMAIN data : o[p] \in ListsOf(data[p])}

StartSync ==
    \E user_id \in CallerIds, data \in {get_all_recent_urls(rows, now)} :
        \E answers \in [DOMAIN data -> RunAnswers], order \in Orders(data) :
            \E r \in {start_sync(rows, system_logs, now, user_id, answers, order)} :
                /\ system_logs' = r.logs
                /\ last' = [op |-> "start_sync", caller |-> user_id,
                            answers |-> answers,
                            response |-> r.response, effects |-> r.effects,
                            log_msgs |-> r.log_msgs]
                /\ UNCHANGED <<rows, now, datasets>>

ApifyWebhook ==
    \E payload \in Payloads :
      \E answer \in FetchAnswers(datasets[payload.resource_id]) :
        \E r \in {apify_webhook_handler(rows, system_logs, payload, answer)} :
            /\ rows' = r.rows
            /\ system_logs' = r.logs
            /\ last' = [op |-> "webhook", payload |-> payload, answer |-> answer,
                        again |-> /\ last.op = "webhook"
                                  /\ last.payload = payload
                                  /\ last.answer = answer,
                        response |-> r.response, effects |-> r.effects,
                        log_msgs |-> r.log_msgs]
            /\ UNCHANGED <<now, datasets>>

GetLogs ==
    /\ last' = [op |-> "get_logs", response |-> get_logs(system_logs)]
    /\ UNCHANGED <<rows, system_logs, now, datasets>>

Next == Tick \/ AnalyticsAdd \/ StartSync \/ ApifyWebhook \/ GetLogs

Spec == Init /\ [][Next]_vars

\* ------------------------------------------------------------------------
\* The log ring on its own: add_log called with any messages
\* ------------------------------------------------------------------------

LogMessages ==
    {Msg("sync_start", "", 0), Msg("webhook_received", "tiktok", 0),
     Msg("updated", "tiktok", 2)}

\* last.messages is the history of the calls: the messages add_log was
\* called with, in order.
InitLog ==
    /\ rows = <<>>
    /\ system_logs = <<>>
    /\ now = 0
    /\ datasets = SampleDatasets
    /\ last = [op |-> "add_log", messages |-> <<>>, raised |-> FALSE]

AddLogCall ==
    /\ Len(last.messages) < MaxAppends
    /\ \E message \in LogMessages :
           LET r == add_log(system_logs, message)
           IN  /\ system_logs' = r.logs
               /\ last' = [op |-> "add_log",
                           messages |-> Append(last.messages, message),
                           raised |-> r.raised]
               /\ UNCHANGED <<rows, now, datasets>>

NextLog == AddLogCall

SpecLog == InitLog /\ [][NextLog]_vars

\* ------------------------------------------------------------------------
\* Claims
\* ------------------------------------------------------------------------

\* The id of the configured operator, as a caller id.
OperatorId == 1

\* The external calls of kind c among the effects of a handler call.
EffectsOf(c) == SelectSeq(last.effects, LAMBDA e : e.call = c)

\* The submissions a handler call made for platform p.
PostsFor(p) ==
    SelectSeq(last.effects, LAMBDA e : e.call = "post_run" /\ e.platform = p)

\* An answer to a submission that is a non-2xx response or a network failure.
FailedRun(answer) ==
    answer.kind = "exception" \/ answer.status < 200 \/ answer.status > 299

\* C1: in a sync pass triggered by the operator, every platform with at
\* least one collected URL gets exactly one job submission whatever the
\* answers to the other platforms; a failed submission is reported as that
\* platform's failure marker, and the handler does not raise.
C1_EveryPlatformSubmittedOnce ==
    (last.op = "start_sync" /\ last.caller = OperatorId) =>
        /\ last.response # Raised
        /\ \A p \in DOMAIN get_all_recent_urls(rows, now) :
               /\ Len(PostsFor(p)) = 1
               /\ FailedRun(last.answers[p]) =>
                      /\ last.response.status = "processing"
                      /\ last.response.launched[p].status = "Failed to start"

\* The last k elements of the sequence s.
LastN(s, k) == SubSeq(s, Len(s) - k + 1, Len(s))

Min(a, b) == IF a <= b THEN a ELSE b

\* C3: after any sequence of n append calls the ring holds exactly the last
\* min(n, 30) appended messages, in append order, and never more than 30
\* entries.
C3_RingHoldsLastAppended ==
    last.op = "add_log" =>
        /\ Len(system_logs) <= LogCapacity
        /\ [i \in DOMAIN system_logs |-> system_logs[i].message]
               = LastN(last.messages, Min(Len(last.messages), LogCapacity))

\* C4: a sync-start request of a caller other than the operator is rejected
\* as not permitted and has no side effect: no storage query, no job
\* submission, no call of add_log and no change of the ring or the table.
C4_UnauthorizedNoEffect ==
    [][(last'.op = "start_sync" /\ last'.caller # OperatorId) =>
           /\ last'.response = Forbidden
           /\ last'.effects = <<>>
           /\ last'.log_msgs = <<>>
           /\ system_logs' = system_logs
           /\ rows' = rows]_vars

\* Witness of C4: a caller other than the operator was rejected while the
\* table holds posts to sync.
C4_Witness ==
    /\ last.op = "start_sync"
    /\ last.caller # OperatorId
    /\ last.response = Forbidden
    /\ DOMAIN get_all_recent_urls(rows, now) # {}

\* The retrieval of the result set failed: a non-200 answer or a network
\* failure.
FailedFetch(answer) == answer.kind = "exception" \/ answer.status # 200

\* C5: when the retrieval of the result set fails, the handler returns an
\* error status object, changes no row and raises nothing.
C5_FetchFailureIsErrorStatus ==
    [][(last'.op = "webhook" /\ FailedFetch(last'.answer)) =>
           /\ last'.response = [status |-> "error"]
           /\ rows' = rows]_vars

\* C6: when the result set is fetched, the handler returns a success status
\* object whatever the number of matched items, and does not raise.
C6_SuccessWhateverTheMatches ==
    (last.op = "webhook" /\ ~FailedFetch(last.answer)) =>
        last.response = [status |-> "success"]

\* The first non-null of the probed URL fields of an item.
FirstNonNull(item) ==
    LET fs == <<item.url, item.direct_url, item.webVideoUrl, item.inputUrl,
                item.player>>
        set == {i \in DOMAIN fs : fs[i] # None}
    IN  IF set = {} THEN None ELSE fs[SetMin(set)]

\* The rows of tbl whose post_url reduces to the identifier vid.
RowsWithKey(tbl, vid) ==
    {i \in DOMAIN tbl : Truthy(tbl[i].post_url)
                        /\ extract_video_id(tbl[i].post_url) = vid}

\* C7: after the reconciliation of a fetched result set, for every item
\* whose identifier is a key of the join map, the row the key maps to holds
\* the likes and views extracted from that item.
C7_MatchedRowGetsCounters ==
    (last.op = "webhook" /\ ~FailedFetch(last.answer)) =>
        \A k \in DOMAIN last.answer.items :
            LET item == last.answer.items[k]
                vid == extract_video_id(FirstNonNull(item))
            IN  RowsWithKey(rows, vid) # {} =>
                    LET row == rows[SetMax(RowsWithKey(rows, vid))]
                    IN  row.likes = likes_of(item) /\ row.views = views_of(item)

\* ------------------------------------------------------------------------
\* The reconciler on its own: lines 491-540 applied to stored rows and the
\* answers of the external service
\* ------------------------------------------------------------------------

\* The two URLs of the Instagram post AB1 and a VK URL.
RowUrlsR == {U_ig, U_igr, U_vk}

\* The tables of at most MaxRows records over these URLs.
TablesR ==
    {[i \in DOMAIN us |->
         [id |-> i, post_url |-> us[i], likes |-> 1, views |-> 1,
          added_at |-> 0, user_id |-> 1, team |-> "red"]] :
     us \in SeqsUpTo(RowUrlsR, MaxRows)}

ItemPoolR == {ItemIg, ItemIgr, ItemVk, EmptyItem}

\* The dataset d1 holds any result set of at most MaxItems items.
DatasetsR ==
    {[d \in DatasetIds |-> IF d = "d1" THEN items ELSE <<ItemTt>>] :
     items \in SeqsUpTo(ItemPoolR, MaxItems)}

InitReconcile ==
    /\ rows \in TablesR
    /\ system_logs = <<>>
    /\ now = 0
    /\ datasets \in DatasetsR
    /\ last = [op |-> "init"]

Reconcile ==
    \E dataset_id \in DatasetIds :
      \E answer \in FetchAnswers(datasets[dataset_id]) :
        \E r \in {reconcile(rows, dataset_id, answer)} :
            /\ rows' = r.rows
            /\ last' = [op |-> "reconcile", dataset |-> dataset_id,
                        answer |-> answer,
                        again |-> /\ last.op = "reconcile"
                                  /\ last.dataset = dataset_id
                                  /\ last.answer = answer,
                        raised |-> r.raised, returned |-> r.returned,
                        effects |-> r.effects]
            /\ UNCHANGED <<system_logs, now, datasets>>

NextReconcile == Reconcile

SpecReconcile == InitReconcile /\ [][NextReconcile]_vars

\* The likes and views of the rows of a table.
Counters(tbl) == [i \in DOMAIN tbl |-> <<tbl[i].likes, tbl[i].views>>]

\* C2: reconciliation is idempotent: delivering the same notification (same
\* dataset, same result set) a second time leaves the likes and views of
\* every row as they are after the first delivery.
C2_ReconcileIdempotent ==
    [][(last'.op = "reconcile" /\ last'.again) =>
           Counters(rows') = Counters(rows)]_vars

\* Witness of C2: the same result set was delivered a second time, and it
\* holds an item that updates a row.
C2_Witness ==
    /\ last.op = "reconcile"
    /\ last.again
    /\ EffectsOf("update") # <<>>
    /\ \E i \in DOMAIN rows : rows[i].likes # 1

\* The URLs an item carries in its probed fields.
ItemUrls(item) ==
    {u \in {item.url, item.direct_url, item.webVideoUrl, item.inputUrl,
            item.player} : Truthy(u)}

\* The row r is matched by an item of the result set items: one of the
\* item's URLs reduces to the identifier of the row's post_url.
MatchedBy(r, items) ==
    /\ Truthy(r.post_url)
    /\ \E k \in DOMAIN items : \E u \in ItemUrls(items[k]) :
           extract_video_id(u) = extract_video_id(r.post_url)

\* The fields of a row other than likes and views.
Frame(r) == <<r.id, r.post_url, r.added_at, r.user_id, r.team>>

\* C8: the pipeline creates and deletes no row, changes no field other than
\* likes and views, and changes a row only in the reconciliation of a
\* fetched result set that holds an item matching it.  (Rows are created by
\* the analytics ingestion, which is not part of the pipeline.)
C8_OnlyCountersOfMatchedRows ==
    [][last'.op # "analytics_add" =>
           /\ Len(rows') = Len(rows)
           /\ \A i \in DOMAIN rows :
                  /\ Frame(rows'[i]) = Frame(rows[i])
                  /\ rows'[i] # rows[i] =>
                         /\ last'.op \in {"reconcile", "webhook"}
                         /\ ~FailedFetch(last'.answer)
                         /\ MatchedBy(rows[i], last'.answer.items)]_vars

\* Witness of C8: a reconciliation updated one row of a table and left
\* another row, matched by no item, as it was.
C8_Witness ==
    /\ last.op = "reconcile"
    /\ EffectsOf("update") # <<>>
    /\ \E i, j \in DOMAIN rows :
           /\ rows[i].likes # 1
           /\ ~MatchedBy(rows[j], last.answer.items)
           /\ rows[j].likes = 1 /\ rows[j].views = 1

\* ------------------------------------------------------------------------
\* Counter extraction: the reconciler on one stored row and one matching
\* item with any counter fields
\* ------------------------------------------------------------------------

\* The items with the URL of the stored row and every combination of the
\* counter fields.
CounterItems ==
    {[EmptyItem EXCEPT !.url = U_ig, !.likes = f.likes, !.likesCount = f.likesCount,
                       !.diggCount = f.diggCount, !.views = f.views,
                       !.videoPlayCount = f.videoPlayCount,
                       !.viewCount = f.viewCount, !.playCount = f.playCount] :
     f \in [likes : {JNull, JInt(0), JInt(5), JCount(42), JCount(0), JNoCount},
            likesCount : {JNull, JInt(3)},
            diggCount : {JNull, JInt(7)},
            views : {JNull, JInt(0), JInt(10)},
            videoPlayCount : {JNull, JInt(1)},
            viewCount : {JNull, JInt(4)},
            playCount : {JNull, JInt(9)}]}

InitCounters ==
    /\ rows = <<[id |-> 1, post_url |-> U_ig, likes |-> 1, views |-> 1,
                 added_at |-> 0, user_id |-> 1, team |-> "red"]>>
    /\ system_logs = <<>>
    /\ now = 0
    /\ datasets \in {[d \in DatasetIds |-> IF d = "d1" THEN <<item>> ELSE <<ItemTt>>] :
                     item \in CounterItems}
    /\ last = [op |-> "init"]

SpecCounters == InitCounters /\ [][NextReconcile]_vars

\* The value of the first probe that is not null, d when all are null.
FirstProbe(probes, d) ==
    LET hit == {i \in DOMAIN probes : probes[i] # JNull}
    IN  IF hit = {} THEN d ELSE probes[SetMin(hit)].v

\* The probes of the likes counter, in order: the count of a nested {count}
\* object, the flat likes field, likesCount, diggCount.
LikesProbes(item) ==
    <<IF item.likes.t = "dict" /\ item.likes.has_count
      THEN JInt(item.likes.count) ELSE JNull,
      IF item.likes.t = "int" THEN item.likes ELSE JNull,
      item.likesCount,
      item.diggCount>>

\* The probes of the views counter, in order.
ViewsProbes(item) ==
    <<item.views, item.videoPlayCount, item.viewCount, item.playCount>>

UrlsC == {U_ig, U_igr, U_tt, U_yt, U_vk, U_x, U_y, U_mix}

TablesC ==
    {[i \in DOMAIN us |->
         [id |-> i, post_url |-> us[i], likes |-> 0, views |-> 0,
          added_at |-> 0, user_id |-> 1, team |-> "red"]] :
     us \in SeqsUpTo(UrlsC, MaxPosts)}

InitCollector ==
    /\ rows \in TablesC
    /\ system_logs = <<>>
    /\ now = 0
    /\ datasets = SampleDatasets
    /\ last = [op |-> "init"]

Collect ==
    /\ last' = [op |-> "collect", result |-> get_all_recent_urls(rows, now)]
    /\ UNCHANGED <<rows, system_logs, now, datasets>>

NextCollector == Collect

SpecCollector == InitCollector /\ [][NextCollector]_vars

\* The markers of each platform, in the priority order of the platforms.
Markers ==
    <<{S_instagram}, {S_tiktok}, {S_youtube, S_youtu_be}, {S_vk_com}>>

\* The platforms whose marker occurs in url, as positions of ACTORS.
MarkedTable ==
    [url \in Urls \ {None} |->
        {k \in DOMAIN Markers : \E m \in Markers[k] : Contains(Lower(url), m)}]

MarkedPlatforms(url) == MarkedTable[url]

\* The URLs of the stored posts.
PostUrlsOf(tbl) == {tbl[i].post_url : i \in DOMAIN tbl}

\* C10: every collected URL is in the bucket of the first platform, in the
\* order Instagram, TikTok, YouTube, VK, whose marker it contains and in no
\* other bucket; a URL with no marker is in no bucket; and the mapping has a
\* key exactly for the platforms with at least one URL.
C10_BucketsByPriority ==
    last.op = "collect" =>
        LET res == last.result
            Expected(k) == {u \in PostUrlsOf(rows) :
                               /\ MarkedPlatforms(u) # {}
                               /\ SetMin(MarkedPlatforms(u)) = k}
        IN  /\ DOMAIN res = {ACTORS[k] : k \in {j \in DOMAIN ACTORS : Expected(j) # {}}}
            /\ \A k \in DOMAIN ACTORS :
                   ACTORS[k] \in DOMAIN res => res[ACTORS[k]] = Expected(k)
            /\ \A p, q \in DOMAIN res : p # q => res[p] \cap res[q] = {}

\* Witness of C10: two Instagram URLs, one TikTok URL and two unrecognized
\* URLs were collected into exactly the keys instagram and tiktok, with 2
\* and 1 URLs.
C10_Witness ==
    /\ last.op = "collect"
    /\ PostUrlsOf(rows) = {U_ig, U_igr, U_tt, U_x, U_y}
    /\ DOMAIN last.result = {"instagram", "tiktok"}
    /\ Cardinality(last.result["instagram"]) = 2
    /\ Cardinality(last.result["tiktok"]) = 1

\* ------------------------------------------------------------------------
\* Claims on the response of the sync trigger
\* ------------------------------------------------------------------------

\* C11: a sync-start of the operator whose collection yields no URL returns
\* status "empty" and submits no job; otherwise the launched and counts
\* mappings of its response both have as keys exactly the platforms with at
\* least one collected URL, and counts[p] is the number of distinct URLs
\* collected for p.
C11_EmptyOrLaunchedAndCounts ==
    (last.op = "start_sync" /\ last.caller = OperatorId) =>
        LET data == get_all_recent_urls(rows, now)
        IN  IF DOMAIN data = {}
            THEN /\ last.response.status = "empty"
                 /\ EffectsOf("post_run") = <<>>
            ELSE /\ last.response.status = "processing"
                 /\ DOMAIN last.response.launched = DOMAIN data
                 /\ DOMAIN last.response.counts = DOMAIN data
                 /\ \A p \in DOMAIN data :
                        last.response.counts[p] = Cardinality(data[p])

\* ------------------------------------------------------------------------
\* The dispatcher on its own: call_apify_actor and lines 465-472 of
\* start_sync on any platform, list of URLs and answer
\* ------------------------------------------------------------------------

\* Bound of the lists of URLs a submission is built for.
MaxUrls == 3

\* The URLs of the lists: a VK URL, a URL no rule applies to and "".
UrlsD == {U_vk, U_x, <<>>}

\* The platforms call_apify_actor is called for: those of ACTORS and one
\* without an actor.
PlatformsD == Range(ACTORS) \cup {"facebook"}

\* The answers to a submission: those of RunAnswers, a 200 whose body has a
\* data object without id, and a 202 with the run id under data.
LaunchAnswers ==
    RunAnswers \cup {RunAnswer(200, "data_no_id"), RunAnswer(202, "data_id")}

InitDispatch ==
    /\ rows = <<>>
    /\ system_logs = <<>>
    /\ now = 0
    /\ datasets = SampleDatasets
    /\ last = [op |-> "init"]

Launch ==
    \E platform \in PlatformsD, urls \in SeqsUpTo(UrlsD, MaxUrls),
       answer \in LaunchAnswers :
        \E la \in {launch(platform, urls, answer)} :
            /\ last' = [op |-> "launch", platform |-> platform, urls |-> urls,
                        answer |-> answer, posts |-> la.posts,
                        detail |-> la.detail]
            /\ UNCHANGED <<rows, system_logs, now, datasets>>

NextDispatch == Launch

SpecDispatch == InitDispatch /\ [][NextDispatch]_vars

\* The identifiers of the urls that resolve to one, in order.
RECURSIVE IdsOf(_)
IdsOf(urls) ==
    IF urls = <<>> THEN <<>>
    ELSE IF extract_video_id(Head(urls)) \in {None, <<>>}
         THEN IdsOf(Tail(urls))
         ELSE <<extract_video_id(Head(urls))>> \o IdsOf(Tail(urls))

\* C12: for every platform with an actor and every list of URLs the payload
\* of the submission has the platform's shape, and its count field is the
\* length of its list field: postURLs/resultsPerPage for tiktok,
\* username/resultsLimit for instagram, query/limit over the extracted
\* identifiers for vk, startUrls/maxResults for any other platform.
C12_PayloadShapeAndCount ==
    (last.op = "launch" /\ last.platform \in Range(ACTORS)) =>
        /\ Len(last.posts) = 1
        /\ LET input == last.posts[1].input
               urls == last.urls
           IN  IF last.platform = "tiktok"
               THEN /\ DOMAIN input = {"postURLs", "resultsPerPage",
                                       "shouldDownloadVideos", "shouldDownloadCovers"}
                    /\ input.postURLs = urls
                    /\ input.resultsPerPage = Len(urls)
               ELSE IF last.platform = "instagram"
               THEN /\ DOMAIN input = {"resultsLimit", "skipPinnedPosts", "username"}
                    /\ input.username = urls
                    /\ input.resultsLimit = Len(urls)
               ELSE IF last.platform = "vk"
               THEN /\ DOMAIN input = {"query", "search_mode", "limit", "hd",
                                       "is_online", "with_photo",
                                       "dev_dataset_clear", "dev_no_strip"}
                    /\ input.query = IdsOf(urls)
                    /\ input.limit = Len(input.query)
               ELSE /\ DOMAIN input = {"startUrls", "maxResults"}
                    /\ Len(input.startUrls) = Len(urls)
                    /\ \A i \in DOMAIN urls : input.startUrls[i] = [url |-> urls[i]]
                    /\ input.maxResults = Len(urls)

\* Witness of C12: a VK submission was built for three URLs of which one
\* resolves to no identifier, and its query holds two identifiers.
C12_Witness ==
    /\ last.op = "launch"
    /\ last.platform = "vk"
    /\ Len(last.urls) = 3
    /\ Len(last.posts) = 1
    /\ Len(last.posts[1].input.query) = 2
    /\ last.posts[1].input.limit = 2

\* ------------------------------------------------------------------------
\* The identity extractor on its own: extract_video_id called on any URL
\* ------------------------------------------------------------------------

InitExtract ==
    /\ rows = <<>>
    /\ system_logs = <<>>
    /\ now = 0
    /\ datasets = SampleDatasets
    /\ last = [op |-> "init"]

\* A call of extract_video_id; again tells that the call before it had the
\* same argument.
Extract ==
    \E url \in Urls :
        /\ last' = [op |-> "extract", url |-> url,
                    result |-> extract_video_id(url),
                    again |-> last.op = "extract" /\ last.url = url]
        /\ UNCHANGED <<rows, system_logs, now, datasets>>

NextExtract == Extract

SpecExtract == InitExtract /\ [][NextExtract]_vars

\* The text p ends right before position b of u.
Before(u, b, p) == StartsAt(u, b - Len(p), p)

\* The YouTube tokens of u: eleven id characters after v=, / or be/, when u
\* has the marker.
YtTokens(u) ==
    IF ~Contains(u, S_youtu) THEN {}
    ELSE {SubSeq(u, b, b + YtIdLen - 1) :
            b \in {c \in 1..(Len(u) - YtIdLen + 1) :
                      /\ \A k \in 0..(YtIdLen - 1) : u[c + k] \in IdChars
                      /\ \E p \in {S_v_eq, S_slash, S_be_slash} : Before(u, c, p)}}

\* The segments of u of characters of class C that begin at a position in
\* begins and end where the run of C ends.
Runs(u, begins, C) ==
    {SubSeq(u, b, e) : <<b, e>> \in
        {x \in begins \X (1..Len(u)) :
            /\ x[1] <= x[2]
            /\ \A k \in x[1]..x[2] : u[k] \in C
            /\ (x[2] = Len(u) \/ u[x[2] + 1] \notin C)}}

\* The Instagram tokens of u: the path segment after /p/, /reel/ or /tv/.
IgTokens(u) ==
    IF ~Contains(u, S_instagram) THEN {}
    ELSE Runs(u, {b \in 1..Len(u) : \E p \in {S_p, S_reel, S_tv} : Before(u, b, p)},
              IdChars)

\* The TikTok tokens of u: the digits after video/.
TtTokens(u) ==
    IF ~Contains(u, S_tiktok) THEN {}
    ELSE Runs(u, {b \in 1..Len(u) : Before(u, b, S_video_sl)}, DigitChars)

\* s is an owner_item pair: digits, "_", digits, with "-" before or not.
IsPair(s) ==
    \E k \in 2..(Len(s) - 1) :
        /\ s[k] = "_"
        /\ \A j \in (k + 1)..Len(s) : s[j] \in DigitChars
        /\ \/ \A j \in 1..(k - 1) : s[j] \in DigitChars
           \/ /\ k > 2
              /\ s[1] = "-"
              /\ \A j \in 2..(k - 1) : s[j] \in DigitChars

\* The VK tokens of u: the pair after clip or video, up to its last digit.
VkTokens(u) ==
    IF ~Contains(u, S_vk_com) THEN {}
    ELSE {SubSeq(u, x[1], x[2]) : x \in
            {y \in (1..Len(u)) \X (1..Len(u)) :
                /\ \E p \in {S_clip, S_video} : Before(u, y[1], p)
                /\ IsPair(SubSeq(u, y[1], y[2]))
                /\ (y[2] = Len(u) \/ u[y[2] + 1] \notin DigitChars)}}

Tokens(u) == YtTokens(u) \cup IgTokens(u) \cup TtTokens(u) \cup VkTokens(u)

\* Tokens on the URLs of the model, computed once per URL.
TokensTable == [u \in Urls \ {None, <<>>} |-> Tokens(u)]

\* What the extractor is to return for url.
Extracted(url, result) ==
    IF url \in {None, <<>>} THEN result = None
    ELSE IF TokensTable[url] = {} THEN result = url
    ELSE result \in TokensTable[url]

MaxStored == 3

\* The ages of the stored posts, in days: inside the window, on its edge and
\* past it.
AgesW == {1, WindowDays - 1, WindowDays, WindowDays + 1}

UrlsW == {U_ig, U_tt, U_vk}

\* The tables of at most MaxStored posts of any URL, age and team, at a time
\* t.
TablesW(t) ==
    {[i \in DOMAIN ps |->
         [id |-> i, post_url |-> ps[i].post_url, likes |-> 0, views |-> 0,
          added_at |-> t - ps[i].age, user_id |-> IF ps[i].team = "red" THEN 1 ELSE 2,
          team |-> ps[i].team]] :
     ps \in SeqsUpTo([post_url : UrlsW, age : AgesW, team : {"red", "blue"}],
                     MaxStored)}

InitWindow ==
    /\ now = WindowDays + 1
    /\ rows \in TablesW(WindowDays + 1)
    /\ system_logs = <<>>
    /\ datasets = SampleDatasets
    /\ last = [op |-> "init"]

SpecWindow == InitWindow /\ [][NextCollector]_vars

\* The URLs of a result of the collector, of every platform.
Collected(result) == UNION {result[p] : p \in DOMAIN result}

RingTail(k) ==
    [i \in 1..k |-> system_logs[Len(system_logs) - k + i].message]

\* C15: under any interleaving of sync-trigger, webhook and status tasks no
\* appended entry is lost or duplicated and every read returns at most 30
\* entries in append order: after a task's segment the ring ends with the
\* messages the segment appended, once each and in order, and a read returns
\* the ring.
C15_AppendsAndReadsAtomic ==
    /\ Len(system_logs) <= 30
    /\ last.op \in {"start_sync", "webhook"} =>
           /\ Len(last.log_msgs) <= Len(system_logs)
           /\ RingTail(Len(last.log_msgs)) = last.log_msgs
    /\ last.op = "get_logs" =>
           /\ last.response.logs = system_logs
           /\ Len(last.response.logs) <= 30

\* The answer is a 2xx response whose body carries a run identifier,
\* top-level or under data.
CarriesRunId(answer) ==
    /\ answer.kind = "response"
    /\ answer.status >= 200 /\ answer.status <= 299
    /\ answer.shape \in {"top_id", "data_id"}

\* C16: a platform is reported as started exactly when its submission got a
\* 2xx answer carrying a run identifier, top-level or under data, and the
\* reported run identifier is that one; on a non-2xx answer or a network
\* failure it is reported as failed to start.
C16_StartedIffRunId ==
    (last.op = "launch" /\ last.platform \in Range(ACTORS)) =>
        IF CarriesRunId(last.answer)
        THEN /\ last.detail.status = "Started"
             /\ last.detail.run_id = RunIdOf(last.platform)
        ELSE last.detail.status = "Failed to start"

\* ------------------------------------------------------------------------
\* The submissions of a sync pass: the loop of start_sync as a coroutine
\* ------------------------------------------------------------------------
\* A request of the operator runs start_sync as a coroutine of the event
\* loop; requests that arrive while it waits run as coroutines of their own.
\* The only place where the loop of lines 462-472 waits is the await of line
\* 465 (the POST of line 229).  A pass is followed here from the collection
\* of line 453 through its submissions to its response; the add_log calls of
\* lines 450, 463 and 474 are those of start_sync above and are not part of
\* these steps.

\* Bound of the number of passes followed.
MaxPasses == 2
PassIds == 1..MaxPasses

\* The stored posts of the passes.
PostsP == {<<>>, <<U_vk>>, <<U_ig, U_tt, U_vk>>}
TablesP ==
    {[i \in DOMAIN ps |->
         [id |-> i, post_url |-> ps[i], likes |-> 0, views |-> 0,
          added_at |-> 0, user_id |-> 1, team |-> "red"]] : ps \in PostsP}

NoResponse == [status |-> "none"]

\* A pass not begun yet.
IdlePass ==
    [pc |-> "idle", data |-> [p \in {} |-> {}], ps |-> <<>>, k |-> 1,
     in_flight |-> {}, launched |-> [p \in {} |-> 0], response |-> NoResponse]

\* Lines 453-462: the pass with the collection data, before its first
\* submission, or its response when there is nothing to submit.
begun(data) ==
    IF DOMAIN data = {}
    THEN [IdlePass EXCEPT !.pc = "done", !.response = [status |-> "empty"]]
    ELSE [IdlePass EXCEPT !.pc = "submit", !.data = data,
                          !.ps = SelectSeq(ACTORS, LAMBDA p : p \in DOMAIN data)]

\* The loop going on to the next platform while the submission just made is
\* still in flight (a task created and not awaited).
submitted_not_awaited(pass) ==
    [pass EXCEPT !.in_flight = @ \cup {pass.ps[pass.k]},
                 !.k = @ + 1,
                 !.pc = IF pass.k + 1 > Len(pass.ps) THEN "respond" ELSE "submit"]

\* Line 465 up to the await: the submission for the k-th platform is in
\* flight and the pass waits for it.
submitted(pass) ==
    [pass EXCEPT !.in_flight = @ \cup {pass.ps[pass.k]}, !.pc = "await"]

\* Lines 465-472 after the await: the submission of the k-th platform has
\* returned or failed, its entry detail is recorded and the loop goes on to
\* the next platform, or to line 474 after the last one.
returned(pass, detail) ==
    [pass EXCEPT !.in_flight = @ \ {pass.ps[pass.k]},
                 !.launched = [p \in DOMAIN pass.launched \cup {pass.ps[pass.k]} |->
                                  IF p = pass.ps[pass.k] THEN detail
                                  ELSE pass.launched[p]],
                 !.k = @ + 1,
                 !.pc = IF pass.k + 1 > Len(pass.ps) THEN "respond" ELSE "submit"]

\* Lines 475-480: the response of the pass.
responded(pass) ==
    [pass EXCEPT !.pc = "done",
                 !.response = [status |-> "processing", scope |-> "all_teams",
                               launched |-> pass.launched,
                               counts |-> [p \in DOMAIN pass.data |->
                                              Cardinality(pass.data[p])]]]

InitPass ==
    /\ now = 0
    /\ rows \in TablesP
    /\ system_logs = <<>>
    /\ datasets = SampleDatasets
    /\ last = [op |-> "pass", passes |-> [i \in PassIds |-> IdlePass]]

\* A request of the operator begins pass i.
PassBegin(i) ==
    /\ last.passes[i].pc = "idle"
    /\ last' = [last EXCEPT !.passes[i] = begun(get_all_recent_urls(rows, now))]
    /\ UNCHANGED <<rows, system_logs, now, datasets>>

\* Pass i makes its next submission.
PassSubmit(i) ==
    /\ last.passes[i].pc = "submit"
    /\ last' = [last EXCEPT !.passes[i] = submitted(@)]
    /\ UNCHANGED <<rows, system_logs, now, datasets>>

\* The external service answers the submission of pass i, or the connection
\* fails.
PassReturn(i) ==
    /\ last.passes[i].pc = "await"
    /\ \E answer \in RunAnswers, urls \in ListsOf(last.passes[i].data[last.passes[i].ps[last.passes[i].k]]) :
          last' = [last EXCEPT !.passes[i] =
                      returned(@, launch(@.ps[@.k], urls, answer).detail)]
    /\ UNCHANGED <<rows, system_logs, now, datasets>>

\* Pass i answers its request.
PassRespond(i) ==
    /\ last.passes[i].pc = "respond"
    /\ last' = [last EXCEPT !.passes[i] = responded(@)]
    /\ UNCHANGED <<rows, system_logs, now, datasets>>

NextPass ==
    \E i \in PassIds :
        \/ PassBegin(i)
        \/ PassSubmit(i)
        \/ PassReturn(i)
        \/ PassRespond(i)

SpecPass == InitPass /\ [][NextPass]_vars

\* C17: within one sync pass the submissions are issued one at a time: a
\* submission is started only when none of the pass is in flight, at most
\* one submission of a pass is in flight at any time, and the pass answers
\* only after the submission of every platform has returned or failed.
C17_SubmissionsOneAtATime ==
    [][\A i \in PassIds :
          /\ (~(last'.passes[i].in_flight \subseteq last.passes[i].in_flight)
                 => last.passes[i].in_flight = {})
          /\ Cardinality(last'.passes[i].in_flight) <= 1
          /\ (last'.passes[i].response # NoResponse
                 => /\ last'.passes[i].in_flight = {}
                    /\ DOMAIN last'.passes[i].launched = DOMAIN last'.passes[i].data)]_vars

\* Witness of C17: one pass answered after its three submissions, of which
\* the last failed, while the other pass has a submission in flight.
C17_Witness ==
    /\ last.op = "pass"
    /\ last.passes[1].response # NoResponse
    /\ DOMAIN last.passes[1].launched = {"instagram", "tiktok", "vk"}
    /\ last.passes[1].launched["vk"].status = "Failed to start"
    /\ last.passes[2].in_flight = {"tiktok"}
    /\ DOMAIN last.passes[2].launched = {"instagram"}

\* ------------------------------------------------------------------------
\* The join map of the reconciler: lines 491-540 on rows of any age, with
\* and without a URL, that reduce to one identifier
\* ------------------------------------------------------------------------

\* Bound of the number of stored rows.
MaxJoined == 3

\* The URLs of the stored rows: two URLs of the Instagram post AB1, null and
\* the empty string.
RowUrlsJ == {U_ig, U_igr, None, <<>>}

\* The tables of at most MaxJoined rows, added at time 0 or at time t.
TablesJ(t) ==
    {[i \in DOMAIN ps |->
         [id |-> i, post_url |-> ps[i].post_url, likes |-> 1, views |-> 1,
          added_at |-> ps[i].added_at, user_id |-> 1, team |-> "red"]] :
     ps \in SeqsUpTo([post_url : RowUrlsJ, added_at : {0, t}], MaxJoined)}

\* The dataset d1 holds one item of the post AB1, the dataset d2 two of them
\* and an item of no stored post.
DatasetsJ ==
    {[d \in DatasetIds |-> IF d = "d1" THEN <<item>>
                           ELSE <<ItemIgr, ItemVk, ItemIg>>] :
     item \in {ItemIg, ItemIgr}}

InitJoin ==
    /\ now = WindowDays + 1
    /\ rows \in TablesJ(WindowDays + 1)
    /\ system_logs = <<>>
    /\ datasets \in DatasetsJ
    /\ last = [op |-> "init"]

SpecJoin == InitJoin /\ [][NextReconcile]_vars

\* Row i of tbl has a URL and no row read after it reduces to its
\* identifier.
ReadLast(tbl, i) ==
    /\ Truthy(tbl[i].post_url)
    /\ i = SetMax(RowsWithKey(tbl, extract_video_id(tbl[i].post_url)))

\* The items of data whose identifier is vid.
ItemsWithKey(data, vid) ==
    {k \in DOMAIN data : extract_video_id(raw_url(data[k])) = vid}

\* The likes and views of the last item of data whose identifier is vid.
LastPair(data, vid) ==
    <<likes_of(data[SetMax(ItemsWithKey(data, vid))]),
      views_of(data[SetMax(ItemsWithKey(data, vid))])>>

video_rule_from(url, yt, ig, tt, vk) ==
    IF Contains(url, S_youtu) /\ yt.matched THEN "youtube"
    ELSE IF Contains(url, S_instagram) /\ ig.matched THEN "instagram"
    ELSE IF Contains(url, S_tiktok) /\ tt.matched THEN "tiktok"
    ELSE IF Contains(url, S_vk_com) /\ vk.matched THEN "vk"
    ELSE ""

video_rule_of(url) ==
    video_rule_from(url, yt_match(url), ig_match(url), tt_match(url),
                    vk_match(url))

\* video_rule_of on the URLs of the model, computed once per URL.
RuleTable == [url \in Urls \ {None, <<>>} |-> video_rule_of(url)]

\* C19: for every URL that contains a platform marker, the platform the
\* collector assigns to it and the platform rule the extractor applies to it
\* agree: a URL of the bucket of platform P is never reduced to an
\* identifier by the pattern of another platform.
C19_BucketAndRuleAgree ==
    (last.op = "extract" /\ Truthy(last.url)) =>
        ((Bucket(last.url) # "" /\ RuleTable[last.url] # "")
            => RuleTable[last.url] = Bucket(last.url))

\* ------------------------------------------------------------------------
\* Concurrent reconciliations: lines 491-540 as tasks that share the table
\* ------------------------------------------------------------------------
\* Every notification runs apify_webhook_handler as a task of its own.  A
\* task reads the table and builds its join map (lines 491-497), waits for
\* the result set (line 502) and then goes through the items, each update
\* being one request to the storage (lines 533-536).  The tasks are followed
\* here update by update, which covers the tasks of one event loop, where
\* the loop over the items runs without a wait, as well as those of several
\* worker processes.  The add_log calls of lines 486 and 542 are those of
\* apify_webhook_handler above and are not part of these steps.

\* Bound of the number of tasks followed.
MaxTasks == 2
TaskIds == 1..MaxTasks

\* The likes and views of the stored rows at the start.
InitialPair == <<1, 1>>

\* The stored rows: one or two rows of the post AB1, or one of it and one of
\* a VK clip.
TablesT ==
    {[i \in DOMAIN us |->
         [id |-> i, post_url |-> us[i], likes |-> InitialPair[1],
          views |-> InitialPair[2], added_at |-> 0, user_id |-> 1,
          team |-> "red"]] :
     us \in {<<U_ig>>, <<U_ig, U_vk>>, <<U_ig, U_igr>>}}

\* The result sets of the two datasets.
DatasetsT ==
    {[d \in DatasetIds |-> IF d = "d1" THEN a ELSE b] :
     a \in {<<ItemIg>>, <<ItemIg, ItemVk>>}, b \in {<<ItemIgr>>, <<ItemVk, ItemIgr>>}}

IdleTask == [pc |-> "idle", dataset |-> "", map |-> [v \in {} |-> 0], data |-> <<>>, k |-> 1]

NoUpdate == [row |-> NoRow]

InitTasks ==
    /\ now = 0
    /\ rows \in TablesT
    /\ system_logs = <<>>
    /\ datasets \in DatasetsT
    /\ last = [op |-> "tasks", tasks |-> [i \in TaskIds |-> IdleTask],
               update |-> NoUpdate]

\* Lines 484-502 up to the wait: task i, notified of dataset_id, reads the
\* table, builds its join map and asks for the result set.
TaskBegin(i) ==
    /\ last.tasks[i].pc = "idle"
    /\ \E dataset_id \in DatasetIds :
          last' = [last EXCEPT !.tasks[i] = [IdleTask EXCEPT !.pc = "await",
                                                !.dataset = dataset_id,
                                                !.map = video_to_row_map(rows)],
                               !.update = NoUpdate]
    /\ UNCHANGED <<rows, system_logs, now, datasets>>

\* Lines 502-506: the answer to the retrieval of task i arrives; the task
\* ends on a failure or a status other than 200 and goes on to the items
\* otherwise.
TaskFetched(i) ==
    /\ last.tasks[i].pc = "await"
    /\ \E answer \in FetchAnswers(datasets[last.tasks[i].dataset]) :
          last' = [last EXCEPT !.tasks[i] =
                      IF answer.kind = "response" /\ answer.status = 200
                      THEN [@ EXCEPT !.pc = "items", !.data = answer.items]
                      ELSE [@ EXCEPT !.pc = "done"],
                               !.update = NoUpdate]
    /\ UNCHANGED <<rows, system_logs, now, datasets>>

\* The row the join map of task gives for item.
row_of(task, item) == MapGet(task.map, extract_video_id(raw_url(item)))

\* Lines 507-540 for the next item of task i: the update of the row its
\* identifier is joined to, when there is one.
TaskItem(i) ==
    /\ last.tasks[i].pc = "items"
    /\ last.tasks[i].k <= Len(last.tasks[i].data)
    /\ \E item \in {last.tasks[i].data[last.tasks[i].k]} :
          /\ rows' = reconcile_item([rows |-> rows, effects |-> <<>>], item,
                                    row_of(last.tasks[i], item)).rows
          /\ last' = [last EXCEPT !.tasks[i].k = @ + 1,
                                  !.update = [row |-> row_of(last.tasks[i], item),
                                              item |-> item]]
    /\ UNCHANGED <<system_logs, now, datasets>>

\* The loop of task i is over.
TaskEnd(i) ==
    /\ last.tasks[i].pc = "items"
    /\ last.tasks[i].k > Len(last.tasks[i].data)
    /\ last' = [last EXCEPT !.tasks[i].pc = "done", !.update = NoUpdate]
    /\ UNCHANGED <<rows, system_logs, now, datasets>>

NextTasks ==
    \E i \in TaskIds :
        \/ TaskBegin(i)
        \/ TaskFetched(i)
        \/ TaskItem(i)
        \/ TaskEnd(i)

SpecTasks == InitTasks /\ [][NextTasks]_vars

\* C20: under any interleaving of reconciliations of different datasets
\* that update the same row, the row's (likes, views) pair after an update
\* is the pair of the item of that update, a row never holds the likes of
\* one item and the views of another, and between two updates of a row its
\* pair stays that of the last update applied to it.
C20_PairOfOneItem ==
    [][\A r \in DOMAIN rows :
          /\ <<rows'[r].likes, rows'[r].views>> \in
                UNION {{<<likes_of(datasets[d][k]), views_of(datasets[d][k])>> :
                           k \in DOMAIN datasets[d]} : d \in DatasetIds}
                \cup {InitialPair}
          /\ IF last'.update.row = rows[r].id
             THEN <<rows'[r].likes, rows'[r].views>> =
                     <<likes_of(last'.update.item), views_of(last'.update.item)>>
             ELSE <<rows'[r].likes, rows'[r].views>> =
                     <<rows[r].likes, rows[r].views>>]_vars

\* Witness of C20: two tasks, of the datasets d1 and d2, have both updated
\* row 1, the task of d1 last, while the task of d2 was between two items;
\* the row holds the pair of the item of d1.
C20_Witness ==
    /\ last.op = "tasks"
    /\ last.tasks[1].dataset = "d1" /\ last.tasks[1].k = 2
    /\ last.tasks[2].dataset = "d2" /\ last.tasks[2].pc = "items"
    /\ datasets["d2"] = <<ItemIgr>> /\ last.tasks[2].k = 2
    /\ last.update = [row |-> 1, item |-> ItemIg]
    /\ Len(rows) = 1
    /\ <<rows[1].likes, rows[1].views>> = <<42, 10>>

\* ------------------------------------------------------------------------
\* The platform of a notification: lines 484-485 and 491-540 for
\* notifications that differ in their platform only
\* ------------------------------------------------------------------------

\* Bound of the number of stored rows.
MaxNotified == 2

\* The platform values of a notification: those of the dispatcher, one it
\* does not know and none.
PlatformsN == Range(ACTORS) \cup {"facebook", "None"}

\* The stored rows: a YouTube video, a TikTok video with the same
\* identifier and an Instagram post.
TablesN ==
    {[i \in DOMAIN us |->
         [id |-> i, post_url |-> us[i], likes |-> 1, views |-> 1,
          added_at |-> 0, user_id |-> 1, team |-> "red"]] :
     us \in SeqsUpTo({U_yt11, U_tt11, U_ig}, MaxNotified)}

\* Result items of the TikTok video and of the YouTube video.
ItemTt11 == [EmptyItem EXCEPT !.webVideoUrl = U_tt11, !.diggCount = JInt(7),
                              !.playCount = JInt(9)]
ItemYt11 == [EmptyItem EXCEPT !.url = U_yt11, !.likes = JInt(3),
                              !.viewCount = JInt(8)]

DatasetsN ==
    {[d \in DatasetIds |-> IF d = "d1" THEN a ELSE <<ItemYt11, ItemIg>>] :
     a \in {<<ItemTt11>>, <<ItemIg, ItemTt11>>}}

\* The lines printed at line 538, one per update of the outcome r of lines
\* 491-540: the platform of the notification and the row.
printed_of(platform, r) ==
    [rows |-> r.rows, raised |-> r.raised, returned |-> r.returned,
     effects |-> r.effects,
     printed |-> [i \in DOMAIN SelectSeq(r.effects, LAMBDA e : e.call = "update") |->
                     [platform |-> platform,
                      row |-> SelectSeq(r.effects, LAMBDA e : e.call = "update")[i].row]]]

\* A reconciliation that joins the items to the rows of the platform of the
\* notification only.
reconcile_payload_own_rows(tbl, payload, answer) ==
    printed_of(payload.platform,
        IF answer.kind = "response" /\ answer.status = 200
        THEN reconcile_loop(
                 video_to_row_map(SelectSeq(tbl, LAMBDA r :
                     Truthy(r.post_url) /\ Bucket(r.post_url) = payload.platform)),
                 answer.items, 1,
                 [raised |-> FALSE, returned |-> "", rows |-> tbl,
                  effects |-> fetch_calls(payload.resource_id),
                  n |-> Len(answer.items)])
        ELSE reconcile(tbl, payload.resource_id, answer))

\* Lines 484-485 and 491-540 of apify_webhook_handler for the notification
\* payload: the platform is read and printed, the reconciliation is that of
\* the result set of resource_id.
reconcile_payload(tbl, payload, answer) ==
    printed_of(payload.platform, reconcile(tbl, payload.resource_id, answer))

InitPlatform ==
    /\ now = 0
    /\ rows \in TablesN
    /\ system_logs = <<>>
    /\ datasets \in DatasetsN
    /\ last = [op |-> "init"]

\* A notification is reconciled; others holds, for every platform value,
\* the rows the same notification with that platform leaves from the same
\* stored rows and the same result set.
Notify ==
    \E payload \in [resource_id : DatasetIds, platform : PlatformsN] :
      \E answer \in FetchAnswers(datasets[payload.resource_id]) :
        \E r \in {reconcile_payload(rows, payload, answer)} :
            /\ rows' = r.rows
            /\ last' = [op |-> "notify", payload |-> payload, answer |-> answer,
                        printed |-> r.printed,
                        others |-> [q \in PlatformsN |->
                                       reconcile_payload(rows,
                                           [payload EXCEPT !.platform = q],
                                           answer).rows]]
            /\ UNCHANGED <<system_logs, now, datasets>>

NextPlatform == Notify

SpecPlatform == InitPlatform /\ [][NextPlatform]_vars

\* C21: the platform of a notification has no influence on storage: the
\* reconciliations of the same result set against the same stored rows for
\* notifications that differ in their platform only leave the same likes and
\* views in every row.
C21_PlatformNoInfluence ==
    last.op = "notify" =>
        \A q \in PlatformsN : Counters(last.others[q]) = Counters(rows)

\* Witness of C21: the item of a TikTok video, of a notification for the
\* platform tiktok, updated the row of the YouTube video with the same
\* identifier.
C21_Witness ==
    /\ last.op = "notify"
    /\ last.payload.platform = "tiktok"
    /\ last.answer = ItemsAnswer(200, <<ItemTt11>>)
    /\ Len(rows) = 1
    /\ rows[1].post_url = U_yt11
    /\ Bucket(rows[1].post_url) = "youtube"
    /\ <<rows[1].likes, rows[1].views>> = <<7, 9>>
    /\ last.printed = <<[platform |-> "tiktok", row |-> 1]>>

====
